---- MODULE Spec2Model ----
(***************************************************************************)
(* Model of the padel-point backend (backend/app): the court registry, the *)
(* booking ledger with its overlap check, and the range report.            *)
(* Timestamps are integer ticks, TicksPerDay ticks to a calendar day.      *)
(* Optional payload fields are sequences: <<>> is None, <<v>> is a value.  *)
(***************************************************************************)
EXTENDS Integers, Sequences, FiniteSets, TLC

\* ---------------------------------------------------------------- bounds
MaxBookings == 2
MaxCourts == 2
MaxTime == 2
MaxClock == 1
MaxReportTime == 3

\* ------------------------------------------------------- input domains
NULL == "NULL"
None == <<>>
Some(v) == <<v>>
IsNone(o) == o = <<>>
Val(o) == o[1]

Times == 0..MaxTime
ReportTimes == 0..MaxReportTime
PriceVals == {0 - 1, 2}
NoteVals == {"note"}
CustomerNames == {"cust"}
CourtNames == {"Court 1", "Court 2"}
CourtIds == 1..(MaxCourts + 1)
BookingIds == 1..(MaxBookings + 1)
DateStrings == {"D0", "D1", "D0T12", "junk"}

\* seed.py: employee1 gets id 1, admin1 gets id 2
Users == {1, 2}
Role(u) == IF u = 2 THEN "admin" ELSE "employee"

\* schemas.BookingCreate / schemas.BookingUpdate: the request bodies whose
\* fields range over the given sets
BookingCreate(cids, starts, ends, prices, paids, notes) ==
    [court_id : cids, customer_name : CustomerNames,
     start_time : starts, end_time : ends, price : prices,
     paid : paids, notes : notes]

BookingUpdate(prices, paids, notes) ==
    [price : prices, paid : paids, notes : notes]

OptPrices == {None} \cup {Some(p) : p \in PriceVals}
OptBools == {None, Some(TRUE), Some(FALSE)}
OptNotes == {None} \cup {Some(n) : n \in NoteVals}
OptNames == {None} \cup {Some(n) : n \in CourtNames}
OptDates == {None} \cup {Some(d) : d \in DateStrings}

\* ------------------------------------------------------------ the state
VARIABLES courts, bookings, resp, inflight

vars == <<courts, bookings, resp, inflight>>

Procs == {"r1", "r2"}
Idle == [pc |-> "idle"]

\* A Booking row. created_at reads the wall clock; receipt_path is never set.
Booking(id, p, u, clock) ==
    [id |-> id, court_id |-> p.court_id, customer_name |-> p.customer_name,
     start_time |-> p.start_time, end_time |-> p.end_time, price |-> p.price,
     paid |-> IF IsNone(p.paid) THEN FALSE ELSE Val(p.paid),
     employee_id |-> u,
     notes |-> IF IsNone(p.notes) THEN NULL ELSE Val(p.notes),
     created_at |-> clock, receipt_path |-> NULL, status |-> "active"]

Court(name) == [name |-> name, description |-> NULL]

\* session.get(Court, id) / session.get(Booking, id)
CourtExists(cs, id) == id \in DOMAIN cs
BookingExists(bs, id) == id \in 1..Len(bs)

\* mutant: only asks whether a stored booking starts inside the new interval
booking_overlaps_startinside(bs, court_id, start, end) ==
    \E i \in 1..Len(bs) :
        /\ bs[i].court_id = court_id
        /\ bs[i].start_time >= start
        /\ bs[i].start_time < end

\* mutant: the court filter is missing
booking_overlaps_anycourt(bs, court_id, start, end) ==
    \E i \in 1..Len(bs) :
        /\ bs[i].end_time > start
        /\ bs[i].start_time < end

\* mutant: closed intervals, touching end points conflict
booking_overlaps_closed(bs, court_id, start, end) ==
    \E i \in 1..Len(bs) :
        /\ bs[i].court_id = court_id
        /\ bs[i].end_time >= start
        /\ bs[i].start_time <= end

\* mutant: cancelled bookings no longer count
booking_overlaps_activeonly(bs, court_id, start, end) ==
    \E i \in 1..Len(bs) :
        /\ bs[i].court_id = court_id
        /\ bs[i].status = "active"
        /\ bs[i].end_time > start
        /\ bs[i].start_time < end

\* crud.booking_overlaps without exclude_booking_id
booking_overlaps(bs, court_id, start, end) ==
    \E i \in 1..Len(bs) :
        /\ bs[i].court_id = court_id
        /\ bs[i].end_time > start
        /\ bs[i].start_time < end

\* after seed.run(): two courts, no bookings
Init ==
    /\ courts = (1 :> Court("Court 1")) @@ (2 :> Court("Court 2"))
    /\ bookings = <<>>
    /\ resp = [op |-> "none"]
    /\ inflight = [p \in Procs |-> Idle]


\* ------------------------------------------------------ auth.require_admin
\* mutant: any authenticated user passes
require_admin_any(u) == u \in Users

require_admin(u) == Role(u) = "admin"

\* --------------------------------------------------------- bookings_router
\* mutant: an empty interval passes the time validation
CreateCode_gt(cs, bs, p) ==
    IF ~CourtExists(cs, p.court_id) THEN 400
    ELSE IF p.start_time > p.end_time THEN 400
    ELSE IF booking_overlaps(bs, p.court_id, p.start_time, p.end_time) THEN 409
    ELSE 200

\* mutant: the court is not looked up
CreateCode_nocourt(cs, bs, p) ==
    IF p.start_time >= p.end_time THEN 400
    ELSE IF booking_overlaps(bs, p.court_id, p.start_time, p.end_time) THEN 409
    ELSE 200

\* create_booking, lines 49-65: the status code the validations lead to
CreateCode(cs, bs, p) ==
    IF ~CourtExists(cs, p.court_id) THEN 400
    ELSE IF p.start_time >= p.end_time THEN 400
    ELSE IF booking_overlaps(bs, p.court_id, p.start_time, p.end_time) THEN 409
    ELSE 200

CreateDetail(cs, bs, p) ==
    IF ~CourtExists(cs, p.court_id) THEN "Court not found"
    ELSE IF p.start_time >= p.end_time THEN "start_time must be before end_time"
    ELSE IF booking_overlaps(bs, p.court_id, p.start_time, p.end_time)
         THEN "Time slot overlaps with an existing booking for this court"
    ELSE "ok"

\* create_booking, lines 66-78: insert with the next autoincrement id
InsertBooking(bs, p, u, clock) == Append(bs, Booking(Len(bs) + 1, p, u, clock))

\* mutant: the row is committed before the overlap check
create_booking_insertfirst(u, p, clock) ==
    LET code == CreateCode(courts, bookings, p) IN
    /\ code \in {200, 409} => Len(bookings) < MaxBookings
    /\ bookings' = IF code \in {200, 409}
                   THEN InsertBooking(bookings, p, u, clock)
                   ELSE bookings
    /\ resp' = [op |-> "create_booking", user |-> u, code |-> code,
                detail |-> CreateDetail(courts, bookings, p),
                court_id |-> p.court_id, start_time |-> p.start_time,
                end_time |-> p.end_time,
                id |-> IF code = 200 THEN Len(bookings) + 1 ELSE 0]
    /\ UNCHANGED <<courts, inflight>>

create_booking(u, p, clock) ==
    LET code == CreateCode(courts, bookings, p) IN
    /\ code = 200 => Len(bookings) < MaxBookings
    /\ bookings' = IF code = 200 THEN InsertBooking(bookings, p, u, clock)
                   ELSE bookings
    /\ resp' = [op |-> "create_booking", user |-> u, code |-> code,
                detail |-> CreateDetail(courts, bookings, p),
                court_id |-> p.court_id, start_time |-> p.start_time,
                end_time |-> p.end_time,
                id |-> IF code = 200 THEN Len(bookings) + 1 ELSE 0]
    /\ UNCHANGED <<courts, inflight>>

\* mutant: notes is assigned whether or not the payload supplies it
ApplyUpdate_always(b, p) ==
    [b EXCEPT !.price = IF IsNone(p.price) THEN @ ELSE Val(p.price),
              !.paid = IF IsNone(p.paid) THEN @ ELSE Val(p.paid),
              !.notes = IF IsNone(p.notes) THEN NULL ELSE Val(p.notes)]

\* update_booking, lines 93-98
ApplyUpdate(b, p) ==
    [b EXCEPT !.price = IF IsNone(p.price) THEN @ ELSE Val(p.price),
              !.paid = IF IsNone(p.paid) THEN @ ELSE Val(p.paid),
              !.notes = IF IsNone(p.notes) THEN @ ELSE Val(p.notes)]

update_booking(u, id, p) ==
    /\ bookings' = IF BookingExists(bookings, id)
                   THEN [bookings EXCEPT ![id] = ApplyUpdate(@, p)]
                   ELSE bookings
    /\ resp' = [op |-> "update_booking", user |-> u,
                code |-> IF BookingExists(bookings, id) THEN 200 ELSE 404,
                id |-> id, payload |-> p]
    /\ UNCHANGED <<courts, inflight>>

\* mutant: the status is toggled
MarkDeleted_toggle(b) ==
    [b EXCEPT !.status = IF @ = "deleted" THEN "active" ELSE "deleted"]

\* delete_booking, line 114
MarkDeleted(b) == [b EXCEPT !.status = "deleted"]

\* mutant: a booking that is already cancelled counts as not found
delete_booking_strict(u, id) ==
    LET found == BookingExists(bookings, id) /\ bookings[id].status = "active" IN
    /\ bookings' = IF found THEN [bookings EXCEPT ![id] = MarkDeleted(@)]
                   ELSE bookings
    /\ resp' = [op |-> "delete_booking", user |-> u,
                code |-> IF found THEN 200 ELSE 404, id |-> id]
    /\ UNCHANGED <<courts, inflight>>

delete_booking(u, id) ==
    /\ bookings' = IF BookingExists(bookings, id)
                   THEN [bookings EXCEPT ![id] = MarkDeleted(@)]
                   ELSE bookings
    /\ resp' = [op |-> "delete_booking", user |-> u,
                code |-> IF BookingExists(bookings, id) THEN 200 ELSE 404,
                id |-> id]
    /\ UNCHANGED <<courts, inflight>>

\* ----------------------------------------------------------- courts_router
Max(S) == CHOOSE x \in S : \A y \in S : y <= x

\* the id the database gives a new row: one more than the largest in the table
NextCourtId(cs) == IF DOMAIN cs = {} THEN 1 ELSE Max(DOMAIN cs) + 1

create_court(u, name) ==
    LET ok == require_admin(u)
        id == NextCourtId(courts) IN
    /\ ok => id <= MaxCourts
    /\ courts' = IF ok THEN courts @@ (id :> Court(name)) ELSE courts
    /\ resp' = [op |-> "create_court", user |-> u,
                code |-> IF ok THEN 200 ELSE 403, id |-> IF ok THEN id ELSE 0]
    /\ UNCHANGED <<bookings, inflight>>

CourtOpCode(cs, u, id) ==
    IF ~require_admin(u) THEN 403
    ELSE IF ~CourtExists(cs, id) THEN 404
    ELSE 200

\* update_court, lines 35-36: only the fields set in the body are assigned
update_court(u, id, name) ==
    LET code == CourtOpCode(courts, u, id) IN
    /\ courts' = IF code = 200 /\ ~IsNone(name)
                 THEN [courts EXCEPT ![id].name = Val(name)]
                 ELSE courts
    /\ resp' = [op |-> "update_court", user |-> u, code |-> code, id |-> id]
    /\ UNCHANGED <<bookings, inflight>>

RemoveCourt(cs, id) == [c \in DOMAIN cs \ {id} |-> cs[c]]

\* models.py, Court.bookings and Booking.court_id: the court's bookings are
\* the stored bookings, of any status, whose court_id is its id
CourtBookings(bs, id) == SelectSeq(bs, LAMBDA b : b.court_id = id)

\* delete_court, lines 49-54: the flush of session.delete de-associates the
\* court's bookings first, setting their court_id to NULL; the column is
\* declared int, NOT NULL, so with any such booking the commit raises an
\* IntegrityError that no handler catches: a 500, nothing written
DeleteCourtCode(cs, bs, u, id) ==
    IF CourtOpCode(cs, u, id) # 200 THEN CourtOpCode(cs, u, id)
    ELSE IF Len(CourtBookings(bs, id)) > 0 THEN 500
    ELSE 200

delete_court(u, id) ==
    LET code == DeleteCourtCode(courts, bookings, u, id) IN
    /\ courts' = IF code = 200 THEN RemoveCourt(courts, id) ELSE courts
    /\ resp' = [op |-> "delete_court", user |-> u, code |-> code, id |-> id]
    /\ UNCHANGED <<bookings, inflight>>

\* ---------------------------------------------------------- reports_router
\* The query strings: "D0" and "D1" are the ISO dates of days 0 and 1, "D0T12"
\* is day 0 with a time of day, "junk" does not parse.
\* datetime.fromisoformat(text).date(): the day, or -1 for a ValueError
ParseDate(text) ==
    CASE text = "D0" -> 0
      [] text = "D1" -> 1
      [] text = "D0T12" -> 0
      [] OTHER -> 0 - 1

\* date.isoformat()
IsoFormat(day) ==
    CASE day = 0 -> "D0"
      [] day = 1 -> "D1"
      [] day = 2 -> "D2"
      [] OTHER -> "D3"

\* ticks in a calendar day
TicksPerDay == 2

\* datetime.date()
DateOf(t) == t \div TicksPerDay

\* datetime(y, m, d) and datetime(y, m, d, 23, 59, 59), in ticks: a tick is no
\* shorter than a second, so the last tick of the day is the latest start
\* time that 23:59:59 admits
StartOfDay(day) == day * TicksPerDay
EndOfDay(day) == (day + 1) * TicksPerDay - 1

RECURSIVE SumPrice(_)
SumPrice(seq) ==
    IF seq = <<>> THEN 0 ELSE Head(seq).price + SumPrice(Tail(seq))

\* generate_report, lines 38-41
BookingsInRange(bs, s, e) ==
    SelectSeq(bs, LAMBDA b : b.start_time >= StartOfDay(s)
                             /\ b.start_time <= EndOfDay(e))

\* mutant: the redacted report counts cancelled bookings too
EmployeeReport_all(matched, start_date, end_date) ==
    [start_date |-> start_date, end_date |-> end_date,
     bookings_count |-> Len(matched), total_revenue |-> 0, paid_amount |-> 0,
     unpaid_amount |-> 0, per_day |-> <<>>, per_court |-> <<>>,
     bookings |-> <<>>]

\* mutant: the revenue of the counted bookings is left in the redacted report
EmployeeReport_leak(matched, start_date, end_date) ==
    LET active == SelectSeq(matched, LAMBDA b : b.status = "active") IN
    [start_date |-> start_date, end_date |-> end_date,
     bookings_count |-> Len(active), total_revenue |-> SumPrice(active),
     paid_amount |-> 0, unpaid_amount |-> 0, per_day |-> <<>>,
     per_court |-> <<>>, bookings |-> <<>>]

\* generate_report, lines 43-55
EmployeeReport(matched, start_date, end_date) ==
    LET active == SelectSeq(matched, LAMBDA b : b.status = "active") IN
    [start_date |-> start_date, end_date |-> end_date,
     bookings_count |-> Len(active), total_revenue |-> 0, paid_amount |-> 0,
     unpaid_amount |-> 0, per_day |-> <<>>, per_court |-> <<>>,
     bookings |-> <<>>]

\* mutant: a bucket adds up the paid bookings only
Bucket_paid(seq) ==
    [count |-> Len(seq),
     revenue |-> SumPrice(SelectSeq(seq, LAMBDA b : b.paid))]

\* generate_report, lines 62-71: one entry of per_day or per_court
Bucket(seq) == [count |-> Len(seq), revenue |-> SumPrice(seq)]

ReportRow(b) ==
    [id |-> b.id, court_id |-> b.court_id, start_time |-> b.start_time,
     end_time |-> b.end_time, price |-> b.price, paid |-> b.paid,
     status |-> b.status]

\* generate_report, lines 58-94
AdminReport(matched, s, e) ==
    LET total == SumPrice(matched)
        paid == SumPrice(SelectSeq(matched, LAMBDA b : b.paid))
        days == {IsoFormat(DateOf(matched[i].start_time)) : i \in 1..Len(matched)}
        cts == {matched[i].court_id : i \in 1..Len(matched)}
    IN
    [start_date |-> IsoFormat(s), end_date |-> IsoFormat(e),
     bookings_count |-> Len(matched), total_revenue |-> total,
     paid_amount |-> paid, unpaid_amount |-> total - paid,
     per_day |-> [d \in days |-> Bucket(SelectSeq(matched,
                    LAMBDA b : IsoFormat(DateOf(b.start_time)) = d))],
     per_court |-> [c \in cts |-> Bucket(SelectSeq(matched,
                    LAMBDA b : b.court_id = c))],
     bookings |-> [i \in 1..Len(matched) |-> ReportRow(matched[i])]]

ReportCode(start_date, end_date) ==
    IF ParseDate(start_date) < 0 \/ ParseDate(end_date) < 0 THEN 400
    ELSE IF ParseDate(start_date) > ParseDate(end_date) THEN 400
    ELSE 200

ReportBody(bs, u, start_date, end_date) ==
    LET s == ParseDate(start_date)
        e == ParseDate(end_date)
        matched == BookingsInRange(bs, s, e)
    IN IF Role(u) # "admin" THEN EmployeeReport(matched, start_date, end_date)
       ELSE AdminReport(matched, s, e)

generate_report(u, start_date, end_date) ==
    LET code == ReportCode(start_date, end_date) IN
    /\ resp' = [op |-> "generate_report", user |-> u, code |-> code,
                start_date |-> start_date, end_date |-> end_date,
                body |-> IF code = 200
                         THEN ReportBody(bookings, u, start_date, end_date)
                         ELSE <<>>]
    /\ UNCHANGED <<courts, bookings, inflight>>

\* get_dashboard_stats works in UTC hours: a tick is HoursPerDay \div
\* TicksPerDay hours, Asia/Karachi is KarachiOffset hours ahead of UTC all year
HoursPerDay == 24
KarachiOffset == 5
WeekDaysBack == 6
StatsNows == {0, 20, 170}

HourOf(t) == t * (HoursPerDay \div TicksPerDay)

\* now_pakistan's calendar day, lines 102-104
LocalDay(now) == (now + KarachiOffset) \div HoursPerDay

\* today_start_utc, today_end_utc (the last whole hour that 23:59:59.999999
\* local admits) and week_start_utc, lines 107-116
TodayStartUtc(now) == LocalDay(now) * HoursPerDay - KarachiOffset
TodayEndUtc(now) == TodayStartUtc(now) + HoursPerDay - 1
WeekStartUtc(now) == TodayStartUtc(now) - WeekDaysBack * HoursPerDay

\* mutant: the windows take cancelled bookings too
ActiveInWindow_all(bs, from, to) ==
    SelectSeq(bs, LAMBDA b : /\ HourOf(b.start_time) >= from
                             /\ HourOf(b.start_time) <= to)

\* get_dashboard_stats, lines 119-134: the active bookings of a window
ActiveInWindow(bs, from, to) ==
    SelectSeq(bs, LAMBDA b : /\ HourOf(b.start_time) >= from
                             /\ HourOf(b.start_time) <= to
                             /\ b.status = "active")

\* get_dashboard_stats, lines 141-142
PaidRevenue(seq) == SumPrice(SelectSeq(seq, LAMBDA b : b.paid))

\* get_dashboard_stats, lines 137-152
StatsBody(bs, u, now) ==
    LET daily == ActiveInWindow(bs, TodayStartUtc(now), TodayEndUtc(now))
        weekly == ActiveInWindow(bs, WeekStartUtc(now), TodayEndUtc(now))
        admin == Role(u) = "admin"
    IN [daily_bookings |-> Len(daily),
        daily_revenue |-> IF admin THEN PaidRevenue(daily) ELSE 0,
        weekly_bookings |-> Len(weekly),
        weekly_revenue |-> IF admin THEN PaidRevenue(weekly) ELSE 0]

get_dashboard_stats(u, now) ==
    /\ resp' = [op |-> "get_dashboard_stats", user |-> u, code |-> 200,
                now |-> now, body |-> StatsBody(bookings, u, now)]
    /\ UNCHANGED <<courts, bookings, inflight>>

\* ------------------------------------------------- bookings_router, reads
\* list_bookings, lines 24-25: the day's first tick and the last tick that
\* 23:59:59.999999 admits
ListStart(day) == day * TicksPerDay
ListEnd(day) == (day + 1) * TicksPerDay - 1

\* mutant: the listing leaves cancelled bookings out
ListedIds_active(bs, date) ==
    {i \in 1..Len(bs) :
        /\ bs[i].status = "active"
        /\ IsNone(date)
           \/ /\ bs[i].start_time >= ListStart(ParseDate(Val(date)))
              /\ bs[i].start_time <= ListEnd(ParseDate(Val(date)))}

\* list_bookings, lines 16-30: the ids of the rows the query selects
ListedIds(bs, date) ==
    IF IsNone(date) THEN 1..Len(bs)
    ELSE {i \in 1..Len(bs) :
            /\ bs[i].start_time >= ListStart(ParseDate(Val(date)))
            /\ bs[i].start_time <= ListEnd(ParseDate(Val(date)))}

\* order_by(Booking.start_time): every order of the ids that ascends in
\* start_time; the database picks the order of rows with equal start_time
ListOrders(bs, ids) ==
    {f \in [1..Cardinality(ids) -> ids] :
        /\ \A k, l \in 1..Cardinality(ids) : k # l => f[k] # f[l]
        /\ \A k \in 1..(Cardinality(ids) - 1) :
              bs[f[k]].start_time <= bs[f[k + 1]].start_time}

ListCode(date) ==
    IF ~IsNone(date) /\ ParseDate(Val(date)) < 0 THEN 400 ELSE 200

\* list_bookings takes no user: the route has no get_current_user dependency
list_bookings(date) ==
    LET code == ListCode(date) IN
    /\ \E f \in (IF code = 200 THEN ListOrders(bookings, ListedIds(bookings, date))
                 ELSE {<<>>}) :
          resp' = [op |-> "list_bookings", code |-> code, date |-> date,
                   body |-> [k \in DOMAIN f |-> bookings[f[k]]]]
    /\ UNCHANGED <<courts, bookings, inflight>>

\* get_booking, lines 37-40; no get_current_user dependency either
get_booking(id) ==
    /\ resp' = [op |-> "get_booking", id |-> id,
                code |-> IF BookingExists(bookings, id) THEN 200 ELSE 404,
                body |-> IF BookingExists(bookings, id) THEN bookings[id]
                         ELSE <<>>]
    /\ UNCHANGED <<courts, bookings, inflight>>

\* ------------------------------------------- requests served one at a time
\* Five request environments drive the same handlers. Each varies the fields
\* its properties are about and holds the others to one value, which keeps
\* every state space small enough to enumerate.

\* Scheduling: every court id, every start and end; the employee books, at
\* one price; either user edits, cancels and manages courts.
Next ==
    \/ \E u \in {1},
          p \in BookingCreate(CourtIds, Times, Times, {2}, {None}, {None}) :
           create_booking(u, p, 0)
    \/ \E u \in Users, id \in BookingIds,
          p \in BookingUpdate({None}, {None, Some(TRUE)}, {None}) :
           update_booking(u, id, p)
    \/ \E u \in Users, id \in BookingIds : delete_booking(u, id)
    \/ \E u \in Users, name \in CourtNames : create_court(u, name)
    \/ \E u \in Users, id \in CourtIds, name \in OptNames :
           update_court(u, id, name)
    \/ \E u \in Users, id \in CourtIds : delete_court(u, id)

Spec == Init /\ [][Next]_vars

\* Editing: the employee books either court for the one slot at every clock
\* reading; either user edits with every payload, and cancels.
NextEdit ==
    \/ \E u \in {1}, clock \in 0..MaxClock,
          p \in BookingCreate({1, 2}, {0}, {1}, {2}, {None}, {None}) :
           create_booking(u, p, clock)
    \/ \E u \in Users, id \in BookingIds,
          p \in BookingUpdate(OptPrices, OptBools, OptNotes) :
           update_booking(u, id, p)
    \/ \E u \in Users, id \in BookingIds : delete_booking(u, id)

SpecEdit == Init /\ [][NextEdit]_vars

\* Reporting: one-tick bookings over two days at every price, paid or not;
\* either user asks for a report over every pair of date strings and for the
\* dashboard at several times; anyone lists and reads bookings.
NextReport ==
    \/ \E u \in {1},
          p \in {q \in BookingCreate({1, 2}, ReportTimes, ReportTimes,
                                     PriceVals, {None, Some(TRUE)}, {None}) :
                    q.end_time = q.start_time + 1} :
           create_booking(u, p, 0)
    \/ \E u \in {1}, id \in BookingIds : delete_booking(u, id)
    \/ \E u \in Users, sd \in DateStrings, ed \in DateStrings :
           generate_report(u, sd, ed)
    \/ \E u \in Users, now \in StatsNows : get_dashboard_stats(u, now)
    \/ \E date \in OptDates : list_bookings(date)
    \/ \E id \in BookingIds : get_booking(id)

SpecReport == Init /\ [][NextReport]_vars

\* Access: either user books the one slot on every court id, edits with the
\* empty payload, cancels, manages courts and asks for a report ending on
\* day 0; anyone lists and reads bookings.
NextAccess ==
    \/ \E u \in Users,
          p \in BookingCreate(CourtIds, {0}, {0, 1}, {2}, {None}, {None}) :
           create_booking(u, p, 0)
    \/ \E u \in Users, id \in BookingIds,
          p \in BookingUpdate({None}, {None}, {None}) :
           update_booking(u, id, p)
    \/ \E u \in Users, id \in BookingIds : delete_booking(u, id)
    \/ \E u \in Users, name \in CourtNames : create_court(u, name)
    \/ \E u \in Users, id \in CourtIds, name \in OptNames :
           update_court(u, id, name)
    \/ \E u \in Users, id \in CourtIds : delete_court(u, id)
    \/ \E u \in Users, sd \in DateStrings : generate_report(u, sd, "D0")
    \/ \E date \in OptDates : list_bookings(date)
    \/ \E id \in BookingIds : get_booking(id)

SpecAccess == Init /\ [][NextAccess]_vars

\* ------------------------------------------------- requests served at once
\* create_booking runs in a worker thread with a session of its own: another
\* request's statements can run between the overlap query and the commit.

\* create_booking, lines 49-65, against the database as it is now
req_check(r, u, p) ==
    LET code == CreateCode(courts, bookings, p)
        pending == Cardinality({q \in Procs : inflight[q].pc = "insert"}) IN
    /\ inflight[r].pc = "idle"
    /\ code = 200 => Len(bookings) + pending < MaxBookings
    /\ inflight' = [inflight EXCEPT ![r] =
           IF code = 200
           THEN [pc |-> "insert", user |-> u, payload |-> p]
           ELSE [pc |-> "done", user |-> u, payload |-> p, code |-> code,
                 id |-> 0]]
    /\ UNCHANGED <<courts, bookings, resp>>

\* create_booking, lines 66-79
req_insert(r, clock) ==
    /\ inflight[r].pc = "insert"
    /\ bookings' = InsertBooking(bookings, inflight[r].payload,
                                 inflight[r].user, clock)
    /\ inflight' = [inflight EXCEPT ![r] =
           [pc |-> "done", user |-> inflight[r].user,
            payload |-> inflight[r].payload, code |-> 200,
            id |-> Len(bookings) + 1]]
    /\ UNCHANGED <<courts, resp>>

NextConc ==
    \/ \E r \in Procs, u \in {1},
          p \in BookingCreate(CourtIds, Times, Times, {2}, {None}, {None}) :
           req_check(r, u, p)
    \/ \E r \in Procs : req_insert(r, 0)

SpecConc == Init /\ [][NextConc]_vars

\* ================================================================ claims
\* spec 3 / 4.1: half-open intervals overlap iff each starts before the
\* other ends
Overlaps(a, b) == a.start_time < b.end_time /\ b.start_time < a.end_time

Ids == 1..Len(bookings)
ActiveIds == {i \in Ids : bookings[i].status = "active"}

\* the request of the create_booking step just taken, as an interval
Asked == [start_time |-> resp'.start_time, end_time |-> resp'.end_time]

\* a create_booking / update_booking step was just taken
CreateStep == resp'.op = "create_booking"
UpdateStep == resp'.op = "update_booking"

\* the step stored exactly one new booking, active, as requested
Stored ==
    /\ resp'.code = 200
    /\ Len(bookings') = Len(bookings) + 1
    /\ SubSeq(bookings', 1, Len(bookings)) = bookings
    /\ LET b == bookings'[Len(bookings')] IN
         /\ b.court_id = resp'.court_id
         /\ b.start_time = resp'.start_time
         /\ b.end_time = resp'.end_time
         /\ b.status = "active"

\* C1: with requests served one at a time, no two distinct active bookings
\* of the same court ever overlap.
C1_NoActiveOverlap ==
    \A i \in ActiveIds, j \in ActiveIds :
        (i # j /\ bookings[i].court_id = bookings[j].court_id)
            => ~Overlaps(bookings[i], bookings[j])

\* the second of two back-to-back active bookings of one court was just stored
C1_Witness ==
    \E i \in ActiveIds, j \in ActiveIds :
        /\ i # j
        /\ bookings[i].court_id = bookings[j].court_id
        /\ bookings[i].end_time = bookings[j].start_time
        /\ resp.op = "create_booking" /\ resp.code = 200

\* C3: creating a booking with the exact court and times of a cancelled
\* booking succeeds (the court exists, no active booking is in the way).
C3_DeletedDoesNotBlock ==
    [][(/\ CreateStep
        /\ CourtExists(courts, resp'.court_id)
        /\ \E i \in Ids :
             /\ bookings[i].status = "deleted"
             /\ bookings[i].court_id = resp'.court_id
             /\ bookings[i].start_time = resp'.start_time
             /\ bookings[i].end_time = resp'.end_time
        /\ \A i \in ActiveIds :
             bookings[i].court_id = resp'.court_id
                 => ~Overlaps(bookings[i], Asked))
       => Stored]_vars

\* C4: a valid create on an existing court is a 409 that stores nothing
\* whenever an active booking of that court overlaps it; with the same times
\* on another existing court that has no overlapping booking it succeeds.
C4_ConflictPerCourt ==
    [][(CreateStep /\ CourtExists(courts, resp'.court_id)
                   /\ resp'.start_time < resp'.end_time)
       => /\ (\E i \in ActiveIds :
                 /\ bookings[i].court_id = resp'.court_id
                 /\ Overlaps(bookings[i], Asked))
             => (resp'.code = 409 /\ bookings' = bookings)
          /\ (/\ \E i \in ActiveIds :
                    /\ bookings[i].court_id # resp'.court_id
                    /\ Overlaps(bookings[i], Asked)
              /\ \A i \in Ids :
                    bookings[i].court_id = resp'.court_id
                        => ~Overlaps(bookings[i], Asked))
             => Stored]_vars

\* the last request booked a court for the very times an active booking
\* holds on another court
C4_Witness ==
    /\ resp.op = "create_booking" /\ resp.code = 200
    /\ \E i \in ActiveIds :
         /\ bookings[i].court_id # resp.court_id
         /\ bookings[i].start_time = resp.start_time
         /\ bookings[i].end_time = resp.end_time

\* C5: a valid create on an existing court is a 409 iff a stored booking of
\* the court starts before the request ends and ends after it starts;
\* otherwise it succeeds, so touching end points are no conflict.
C5_HalfOpen ==
    [][(CreateStep /\ CourtExists(courts, resp'.court_id)
                   /\ resp'.start_time < resp'.end_time)
       => LET hit == \E i \in Ids :
                        /\ bookings[i].court_id = resp'.court_id
                        /\ bookings[i].start_time < resp'.end_time
                        /\ resp'.start_time < bookings[i].end_time
          IN /\ hit <=> resp'.code = 409
             /\ ~hit => Stored]_vars

\* the last request booked the slot that starts when another booking of the
\* court ends
C5_Witness ==
    /\ resp.op = "create_booking" /\ resp.code = 200
    /\ \E i \in Ids :
         /\ bookings[i].court_id = resp.court_id
         /\ bookings[i].end_time = resp.start_time

\* C6: a create with start_time >= end_time on an existing court is a 400
\* that stores nothing, and every stored booking has start_time < end_time.
C6_BadTimes ==
    /\ [](\A i \in Ids : bookings[i].start_time < bookings[i].end_time)
    /\ [][(CreateStep /\ CourtExists(courts, resp'.court_id)
                      /\ resp'.start_time >= resp'.end_time)
          => (resp'.code = 400 /\ bookings' = bookings)]_vars

\* a create with equal start and end on an existing court was refused while
\* the ledger holds a booking
C6_Witness ==
    /\ resp.op = "create_booking" /\ resp.code = 400
    /\ CourtExists(courts, resp.court_id)
    /\ resp.start_time = resp.end_time
    /\ Len(bookings) > 0

\* C7: a create whose court_id resolves to no court is a 400 that stores
\* nothing, whatever its times.
C7_NoCourt ==
    [][(CreateStep /\ ~CourtExists(courts, resp'.court_id))
       => (resp'.code = 400 /\ bookings' = bookings)]_vars

\* a create with valid times was refused for a court that was deleted, while
\* the ledger holds a booking of the other court
C7_Witness ==
    /\ resp.op = "create_booking" /\ resp.code = 400
    /\ ~CourtExists(courts, resp.court_id)
    /\ resp.start_time < resp.end_time
    /\ \E i \in Ids : CourtExists(courts, bookings[i].court_id)

\* C8: a booking is stored active, its status is active or deleted, and once
\* deleted it stays deleted.
C8_Lifecycle ==
    /\ [](\A i \in Ids : bookings[i].status \in {"active", "deleted"})
    /\ [][/\ \A i \in Ids :
               bookings[i].status = "deleted"
                   => (i <= Len(bookings') /\ bookings'[i].status = "deleted")
          /\ \A i \in (Len(bookings) + 1)..Len(bookings') :
               bookings'[i].status = "active"]_vars

\* a cancelled booking was edited, and the slot beside it booked before that
C8_Witness ==
    /\ resp.op = "update_booking" /\ resp.code = 200
    /\ bookings[resp.id].status = "deleted"
    /\ bookings[resp.id].paid
    /\ Len(bookings) > 1

\* C9: an update of an existing booking assigns price, paid and notes, each
\* only when the payload supplies it, and changes nothing else of that
\* booking and nothing of any other.
C9_UpdateFrame ==
    [][(UpdateStep /\ resp'.code = 200)
       => LET id == resp'.id
              p == resp'.payload
              old == bookings[id]
              new == bookings'[id]
          IN /\ Len(bookings') = Len(bookings)
             /\ \A j \in Ids : j # id => bookings'[j] = bookings[j]
             /\ new.id = old.id /\ new.court_id = old.court_id
             /\ new.customer_name = old.customer_name
             /\ new.start_time = old.start_time
             /\ new.end_time = old.end_time
             /\ new.status = old.status
             /\ new.employee_id = old.employee_id
             /\ new.created_at = old.created_at
             /\ new.receipt_path = old.receipt_path
             /\ new.price = IF IsNone(p.price) THEN old.price ELSE Val(p.price)
             /\ new.paid = IF IsNone(p.paid) THEN old.paid ELSE Val(p.paid)
             /\ new.notes = IF IsNone(p.notes) THEN old.notes ELSE Val(p.notes)
             /\ DOMAIN new = DOMAIN old]_vars

\* the last request set only the price of one of two bookings, leaving it
\* paid and annotated
C9_Witness ==
    /\ resp.op = "update_booking" /\ resp.code = 200
    /\ resp.payload = [price |-> Some(0 - 1), paid |-> None, notes |-> None]
    /\ Len(bookings) = 2
    /\ bookings[resp.id].price = 0 - 1
    /\ bookings[resp.id].paid
    /\ bookings[resp.id].notes # NULL

\* the ledgers that differ from the stored one in prices and paid flags only
Repriced ==
    {[i \in Ids |-> [bookings[i] EXCEPT !.price = f[i][1], !.paid = f[i][2]]] :
        f \in [Ids -> PriceVals \X BOOLEAN]}

\* C10: a report for a non-admin over a valid range has zero total_revenue,
\* paid_amount and unpaid_amount and empty per_day, per_court and bookings,
\* and is the same for every ledger that differs in prices and paid flags only.
C10_EmployeeReport ==
    (resp.op = "generate_report" /\ resp.code = 200
                                 /\ Role(resp.user) # "admin")
        => /\ resp.body.total_revenue = 0
           /\ resp.body.paid_amount = 0
           /\ resp.body.unpaid_amount = 0
           /\ resp.body.per_day = <<>>
           /\ resp.body.per_court = <<>>
           /\ resp.body.bookings = <<>>
           /\ \A other \in Repriced :
                 ReportBody(other, resp.user, resp.start_date, resp.end_date)
                     = resp.body

\* the employee got a report that counts one of two stored bookings, a paid
\* one among them
C10_Witness ==
    /\ resp.op = "generate_report" /\ resp.code = 200
    /\ Role(resp.user) # "admin"
    /\ resp.body.bookings_count = 1
    /\ Len(bookings) = 2
    /\ \E i \in ActiveIds : bookings[i].paid /\ bookings[i].price # 0

\* requests that have returned
Done == {r \in Procs : inflight[r].pc = "done"}

\* C2: with the overlap check and the insert of concurrent create requests
\* interleaved, no two active bookings of a court overlap, and of two
\* requests for overlapping intervals on one court at most one succeeds.
C2_NoDoubleBooking ==
    /\ \A i \in ActiveIds, j \in ActiveIds :
          (i # j /\ bookings[i].court_id = bookings[j].court_id)
              => ~Overlaps(bookings[i], bookings[j])
    /\ \A r \in Done, q \in Done :
          (/\ r # q
           /\ inflight[r].payload.court_id = inflight[q].payload.court_id
           /\ Overlaps(inflight[r].payload, inflight[q].payload))
              => ~(inflight[r].code = 200 /\ inflight[q].code = 200)

\* the sum of f over the finite set S
RECURSIVE SumFn(_, _)
SumFn(f, S) ==
    IF S = {} THEN 0
    ELSE LET x == CHOOSE y \in S : TRUE IN f[x] + SumFn(f, S \ {x})

PriceSum(S) == SumFn([i \in Ids |-> bookings[i].price], S)
CountTotal(buckets) ==
    SumFn([k \in DOMAIN buckets |-> buckets[k].count], DOMAIN buckets)
RevenueTotal(buckets) ==
    SumFn([k \in DOMAIN buckets |-> buckets[k].revenue], DOMAIN buckets)

\* the last response is a report over a valid range
ReportOk == resp.op = "generate_report" /\ resp.code = 200

\* the bookings whose start date lies in the range the last report asked for
Matched ==
    {i \in Ids : /\ DateOf(bookings[i].start_time) >= ParseDate(resp.start_date)
                 /\ DateOf(bookings[i].start_time) <= ParseDate(resp.end_date)}

DayKey(i) == IsoFormat(DateOf(bookings[i].start_time))

\* C11: in an admin report total_revenue = paid_amount + unpaid_amount, each
\* per_day entry holds the number and the summed price of the matched bookings
\* that start on its day, and the per_day and per_court counts and revenues
\* each add up to bookings_count and total_revenue.
C11_AdminReport ==
    (ReportOk /\ Role(resp.user) = "admin")
        => LET r == resp.body IN
           /\ r.total_revenue = r.paid_amount + r.unpaid_amount
           /\ DOMAIN r.per_day = {DayKey(i) : i \in Matched}
           /\ \A d \in DOMAIN r.per_day :
                 /\ r.per_day[d].revenue
                        = PriceSum({i \in Matched : DayKey(i) = d})
                 /\ r.per_day[d].count
                        = Cardinality({i \in Matched : DayKey(i) = d})
           /\ CountTotal(r.per_day) = r.bookings_count
           /\ CountTotal(r.per_court) = r.bookings_count
           /\ RevenueTotal(r.per_day) = r.total_revenue
           /\ RevenueTotal(r.per_court) = r.total_revenue

\* the admin's report for day 0 holds a paid and an unpaid booking of price 2
C11_Witness ==
    /\ ReportOk /\ Role(resp.user) = "admin"
    /\ resp.body.bookings_count = 2
    /\ resp.body.total_revenue = 4
    /\ resp.body.paid_amount = 2
    /\ resp.body.unpaid_amount = 2
    /\ DOMAIN resp.body.per_day = {"D0"}
    /\ resp.body.per_day["D0"] = [count |-> 2, revenue |-> 4]

\* C12: every stored booking has a price that is not negative.
C12_PriceNonNegative == \A i \in Ids : bookings[i].price >= 0

\* a court handler / a booking mutation was just run
CourtStep == resp'.op \in {"create_court", "update_court", "delete_court"}
BookingStep ==
    resp'.op \in {"create_booking", "update_booking", "delete_booking"}

\* C13: a court create, update or delete by a non-admin is a 403 that leaves
\* the courts as they were; an admin's update or delete of an absent court id
\* is a 404; booking create, update and cancel are never refused for the role:
\* update and cancel succeed for either user exactly when the booking exists.
C13_AdminOnlyCourts ==
    [][/\ (CourtStep /\ Role(resp'.user) # "admin")
             => (resp'.code = 403 /\ courts' = courts)
       /\ (/\ resp'.op \in {"update_court", "delete_court"}
           /\ Role(resp'.user) = "admin"
           /\ resp'.id \notin DOMAIN courts)
             => (resp'.code = 404 /\ courts' = courts)
       /\ BookingStep => resp'.code \notin {401, 403}
       /\ resp'.op \in {"update_booking", "delete_booking"}
             => (resp'.code = 200 <=> resp'.id \in Ids)]_vars

\* the employee was refused the deletion of an existing court while the
\* ledger holds a booking made by the employee and one made by the admin
C13_Witness ==
    /\ resp.op = "delete_court" /\ resp.code = 403
    /\ Role(resp.user) = "employee"
    /\ resp.id \in DOMAIN courts
    /\ \E i \in Ids, j \in Ids :
         /\ Role(bookings[i].employee_id) = "employee"
         /\ Role(bookings[j].employee_id) = "admin"

\* C14: cancelling a booking that is already cancelled succeeds and changes
\* nothing: the ledger a cancel leaves is a fixed point of that cancel.
C14_CancelIdempotent ==
    /\ [](\A i \in Ids : bookings[i].status = "deleted"
              => [bookings EXCEPT ![i] = MarkDeleted(@)] = bookings)
    /\ [][(/\ resp'.op = "delete_booking"
           /\ resp'.id \in Ids
           /\ bookings[resp'.id].status = "deleted")
          => (resp'.code = 200 /\ bookings' = bookings /\ courts' = courts)]_vars

\* a cancel of a cancelled booking was answered 200 beside an active booking
C14_Witness ==
    /\ resp.op = "delete_booking" /\ resp.code = 200
    /\ bookings[resp.id].status = "deleted"
    /\ \E i \in ActiveIds : i # resp.id

\* the ledger after booking i is cancelled, and the last report asked again
Cancelled(i) == [bookings EXCEPT ![i] = MarkDeleted(@)]
ReportAfterCancel(i) ==
    ReportBody(Cancelled(i), resp.user, resp.start_date, resp.end_date)

\* C15: a non-admin report counts the active bookings that start in the
\* range; an admin report counts every booking that starts in the range and
\* sums all their prices, cancelled and unpaid included; so cancelling an
\* active booking of the range takes one off the non-admin count and leaves
\* the admin count and total_revenue as they were.
C15_CountsByRole ==
    ReportOk =>
        IF Role(resp.user) # "admin"
        THEN /\ resp.body.bookings_count = Cardinality(Matched \cap ActiveIds)
             /\ \A i \in Matched \cap ActiveIds :
                   ReportAfterCancel(i).bookings_count
                       = resp.body.bookings_count - 1
        ELSE /\ resp.body.bookings_count = Cardinality(Matched)
             /\ resp.body.total_revenue = PriceSum(Matched)
             /\ \A i \in Matched \cap ActiveIds :
                   /\ ReportAfterCancel(i).bookings_count
                          = resp.body.bookings_count
                   /\ ReportAfterCancel(i).total_revenue
                          = resp.body.total_revenue

\* the admin's report counts one booking, cancelled and unpaid, and leaves
\* out an active booking of another day
C15_Witness ==
    /\ ReportOk /\ Role(resp.user) = "admin"
    /\ resp.body.bookings_count = 1
    /\ Len(bookings) = 2
    /\ \E i \in Matched : bookings[i].status = "deleted" /\ ~bookings[i].paid
    /\ \E j \in ActiveIds : j \notin Matched

\* the error codes each handler can answer with
ErrorCodes(op) ==
    CASE op = "create_booking" -> {400, 409}
      [] op \in {"update_booking", "delete_booking", "get_booking"} -> {404}
      [] op = "create_court" -> {403}
      [] op = "update_court" -> {403, 404}
      [] op = "delete_court" -> {403, 404, 500}
      [] op \in {"generate_report", "list_bookings"} -> {400}
      [] OTHER -> {}

\* C16: a request that ends in an error leaves every court and every booking
\* as it was, and a handler answers 200 or one of its own error codes.
C16_ErrorsChangeNothing ==
    [][/\ resp'.code \in {200} \cup ErrorCodes(resp'.op)
       /\ resp'.code # 200 => (bookings' = bookings /\ courts' = courts)]_vars

\* a report was refused for a start after its end on a ledger with bookings
C16_Witness ==
    /\ resp.op = "generate_report" /\ resp.code = 400
    /\ ParseDate(resp.start_date) > ParseDate(resp.end_date)
    /\ ParseDate(resp.end_date) >= 0
    /\ Len(bookings) = 2

\* the bookings the last list_bookings request asked for: all of them, or
\* those that start on its day, whatever their status
Wanted ==
    {i \in Ids : IsNone(resp.date)
                 \/ DateOf(bookings[i].start_time) = ParseDate(Val(resp.date))}

\* C17: a cancel keeps the record and only marks it; get_booking returns any
\* stored booking, cancelled or not; list_bookings, with or without a date,
\* returns every stored booking it was asked for, cancelled or not, in
\* ascending start_time order.
C17_SoftCancelListed ==
    /\ []((resp.op = "get_booking" /\ resp.id \in Ids)
             => (resp.code = 200 /\ resp.body = bookings[resp.id]))
    /\ []((resp.op = "list_bookings" /\ resp.code = 200)
             => /\ {resp.body[k].id : k \in DOMAIN resp.body} = Wanted
                /\ Len(resp.body) = Cardinality(Wanted)
                /\ \A k \in DOMAIN resp.body :
                      resp.body[k] = bookings[resp.body[k].id]
                /\ \A k \in 1..(Len(resp.body) - 1) :
                      resp.body[k].start_time <= resp.body[k + 1].start_time)
    /\ [][(resp'.op = "delete_booking" /\ resp'.code = 200)
          => /\ Len(bookings') = Len(bookings)
             /\ bookings'[resp'.id]
                    = [bookings[resp'.id] EXCEPT !.status = "deleted"]]_vars

\* the listing of day 0 puts a cancelled booking, stored second, before an
\* active one that starts later
C17_Witness ==
    /\ resp.op = "list_bookings" /\ resp.code = 200
    /\ resp.date = Some("D0")
    /\ Len(resp.body) = 2
    /\ resp.body[1].id = 2
    /\ resp.body[1].status = "deleted"
    /\ resp.body[2].status = "active"
    /\ resp.body[1].start_time < resp.body[2].start_time

\* the Asia/Karachi calendar day on which booking i starts
StartDayLocal(i) ==
    (HourOf(bookings[i].start_time) + KarachiOffset) \div HoursPerDay

\* the active bookings that start on the Karachi day of the last stats
\* request, and in the seven days that end with it
ActiveToday == {i \in ActiveIds : StartDayLocal(i) = LocalDay(resp.now)}
ActiveWeek ==
    {i \in ActiveIds : /\ StartDayLocal(i) >= LocalDay(resp.now) - WeekDaysBack
                       /\ StartDayLocal(i) <= LocalDay(resp.now)}

\* C18: the dashboard counts the active bookings of today and of the last
\* seven days; an admin's revenues are the summed prices of the paid ones, a
\* non-admin's are 0; daily_bookings never exceeds weekly_bookings.
C18_DashboardStats ==
    resp.op = "get_dashboard_stats" =>
        LET r == resp.body
            admin == Role(resp.user) = "admin" IN
        /\ resp.code = 200
        /\ r.daily_bookings = Cardinality(ActiveToday)
        /\ r.weekly_bookings = Cardinality(ActiveWeek)
        /\ r.daily_revenue =
              IF admin THEN PriceSum({i \in ActiveToday : bookings[i].paid})
              ELSE 0
        /\ r.weekly_revenue =
              IF admin THEN PriceSum({i \in ActiveWeek : bookings[i].paid})
              ELSE 0
        /\ r.daily_bookings <= r.weekly_bookings

\* at 20:00 UTC of day 0, day 1 in Karachi, the admin's dashboard counts an
\* unpaid booking today and a paid one earlier in the week
C18_Witness ==
    /\ resp.op = "get_dashboard_stats" /\ Role(resp.user) = "admin"
    /\ resp.now = 20
    /\ resp.body.daily_bookings = 1
    /\ resp.body.weekly_bookings = 2
    /\ resp.body.daily_revenue = 0
    /\ resp.body.weekly_revenue = 2

\* the stored bookings whose court_id resolves to no court
Orphans == {i \in Ids : ~CourtExists(courts, bookings[i].court_id)}

\* C19: an admin's delete_court of an existing court succeeds whether or not
\* bookings reference it and leaves every booking as it was; bookings of a
\* court that is gone are still listed and still counted by the admin's
\* report, and a create_booking on their court_id is a 400.
C19_DeleteCourtOrphans ==
    /\ [][(/\ resp'.op = "delete_court"
           /\ Role(resp'.user) = "admin"
           /\ CourtExists(courts, resp'.id))
          => /\ resp'.code = 200
             /\ ~CourtExists(courts', resp'.id)
             /\ bookings' = bookings]_vars
    /\ []((resp.op = "list_bookings" /\ resp.code = 200)
             => Orphans \cap Wanted
                    \subseteq {resp.body[k].id : k \in DOMAIN resp.body})
    /\ []((ReportOk /\ Role(resp.user) = "admin")
             => Orphans \cap Matched
                    \subseteq {resp.body.bookings[k].id :
                                  k \in DOMAIN resp.body.bookings})
    /\ [][(CreateStep /\ \E i \in Orphans :
                            bookings[i].court_id = resp'.court_id)
          => (resp'.code = 400 /\ bookings' = bookings)]_vars

\* the stored bookings of the court of the last create_booking request that
\* overlap the interval it asked for
InTheWay ==
    {i \in Ids : /\ bookings[i].court_id = resp.court_id
                 /\ bookings[i].start_time < resp.end_time
                 /\ resp.start_time < bookings[i].end_time}

\* C20: with requests served one at a time, no two distinct stored bookings
\* of the same court overlap, whatever their status; a create_booking for a
\* well-formed interval that overlaps a stored booking of its court, active
\* or cancelled, is a 409 that stores nothing.
C20_NoStoredOverlap ==
    /\ [](\A i \in Ids, j \in Ids :
             (i # j /\ bookings[i].court_id = bookings[j].court_id)
                 => ~Overlaps(bookings[i], bookings[j]))
    /\ [][(/\ CreateStep
           /\ resp'.start_time < resp'.end_time
           /\ \E i \in Ids : /\ bookings[i].court_id = resp'.court_id
                             /\ Overlaps(bookings[i], Asked))
          => (resp'.code = 409 /\ bookings' = bookings)]_vars

\* a create was refused with 409 although every booking in its way had been
\* cancelled
C20_Witness ==
    /\ resp.op = "create_booking" /\ resp.code = 409
    /\ InTheWay # {}
    /\ \A i \in InTheWay : bookings[i].status = "deleted"

====
